---------------------------- MODULE Spec2Model ----------------------------
(***************************************************************************)
(* Model of src/ALifeSim/LocalSearchSolver.py: the RulesetState rule       *)
(* strings, the HillClimber driver and the GASearcher driver; and of the   *)
(* A* advisor of src/MacCampusCode/MacStateAdvisors.py.                    *)
(*                                                                         *)
(* A rule string is a sequence of one-character strings.  Random draws of  *)
(* the code (random.randrange, random.choice, random.random) are inputs    *)
(* chosen with \E.  A state's cached stateValue is the value of the pure   *)
(* evaluation function on its rule string, so getValue is an operator.     *)
(***************************************************************************)
EXTENDS Integers, Sequences, FiniteSets, TLC

VARIABLES
    evalFunction,   \* the evaluation function every state of the run carries
    RULE_LEN,       \* RulesetState.RULE_LEN, the class attribute (27 in the source)
    hc,             \* the HillClimber object's fields
    hcCaller,       \* the caller of the HillClimber: position in run, last status
    stateGen,       \* ruleString of the generator state handed to GASearcher
    ga,             \* the GASearcher object's fields
    gaCaller,       \* the caller of the GASearcher: position in run, last status
    rs,             \* one rouletteSelect call: valueList, draw point, result
    nb,             \* one allNeighbors call: the source state and the list returned
    xo,             \* one crossover call: the parents, the point drawn, the children
    mv,             \* one makeRandomMove call: the source state and the state returned
    grs,            \* one getRandomStates call: n and what the call returned
    astar           \* the A* advisor: the map, the goal, the state in hand, its neighbours

vars == <<evalFunction, RULE_LEN, hc, hcCaller, stateGen, ga, gaCaller, rs, nb,
          xo, mv, grs, astar>>

-----------------------------------------------------------------------------
(* Bounds of the model *)

\* longest rule string a caller hands to RulesetState explicitly
MaxLen == 3
\* longest start rule string of a hill climber
HCMaxLen == 2
\* largest round cap of a hill climber
MaxRounds == 2
\* cap on the hill climber's step counter (direct calls of step stop there)
MaxCount == 3
\* largest RULE_LEN of a genetic-algorithm run
GARuleLen == 1
\* largest population size requested from GASearcher
MaxPopReq == 2
\* largest generation cap of a GASearcher
MaxGen == 2
\* longest list handed to rouletteSelect, and the largest value in it
MaxList == 3
MaxFit == 2
\* draw points of rouletteSelect are the multiples of 1/PickRes in [0, total)
PickRes == 2
\* largest n handed to getRandomStates, and the longest rule string it builds
MaxStates == 2
GRSRuleLen == 2
\* vertices of the campus map, the largest edge weight, and the longest path
\* the search records before it stops expanding
NumVertices == 3
MaxWeight == 2
MaxPath == 3

-----------------------------------------------------------------------------
(* RulesetState *)

Symbols == {"a", "s", "f", "l", "r"}

\* options = "sflr" of randomRuleset
options == <<"s", "f", "l", "r">>

Range(seq) == {seq[i] : i \in DOMAIN seq}

Rules(n) == [1..n -> Symbols]

RulesUpTo(n) == UNION {Rules(k) : k \in 1..n}

\* every string randomRuleset can build
randomRuleset == [1..RULE_LEN -> Range(options)]

EvalFunctions == {"countF", "twoPeaks"}

CountSym(rule, sym) == Cardinality({i \in DOMAIN rule : rule[i] = sym})

\* the caller's evaluation functions: the number of 'f' symbols; and the same
\* with a second, higher peak at the all-'l' string
Eval(fn, rule) ==
    CASE fn = "countF" -> CountSym(rule, "f")
      [] fn = "twoPeaks" ->
            IF \A i \in DOMAIN rule : rule[i] = "l"
            THEN Len(rule) + 1
            ELSE CountSym(rule, "f")

\* the maximum value the caller reports for a rule string of length n
MaxValueOf(fn, n) ==
    CASE fn = "countF" -> n
      [] fn = "twoPeaks" -> n + 1

getValue(rule) == Eval(evalFunction, rule)

getMaxValue(rule) == MaxValueOf(evalFunction, Len(rule))

otherSymbolsNoA(sym) ==
    CASE sym = "a" -> <<"s", "f", "l", "r">>
      [] sym = "s" -> <<"f", "l", "r">>
      [] sym = "f" -> <<"s", "l", "r">>
      [] sym = "l" -> <<"s", "f", "r">>
      [] sym = "r" -> <<"s", "f", "l">>

otherSymbols(sym) ==
    CASE sym = "a" -> <<"s", "f", "l", "r">>
      [] sym = "s" -> <<"a", "f", "l", "r">>
      [] sym = "f" -> <<"a", "s", "l", "r">>
      [] sym = "l" -> <<"a", "s", "f", "r">>
      [] sym = "r" -> <<"a", "s", "f", "l">>

\* ruleString[:i] + c + ruleString[i+1:], with i counted from 1
Substitute(rule, i, c) ==
    SubSeq(rule, 1, i - 1) \o <<c>> \o SubSeq(rule, i + 1, Len(rule))

RECURSIVE NeighborsFrom(_, _)
NeighborsFrom(rule, i) ==
    IF i > Len(rule)
    THEN << >>
    ELSE LET otherSyms == otherSymbols(rule[i])
         IN  [k \in 1..Len(otherSyms) |-> Substitute(rule, i, otherSyms[k])]
             \o NeighborsFrom(rule, i + 1)

allNeighbors(rule) == NeighborsFrom(rule, 1)

\* randElem is the position drawn (from 1), newElem the symbol drawn from opts
makeRandomMoveInsert(rule, randElem, newElem) ==
    SubSeq(rule, 1, randElem) \o <<newElem>> \o SubSeq(rule, randElem + 1, Len(rule))

\* randElem is the position drawn, newElem the symbol drawn among the others
makeRandomMove(rule, randElem, newElem) == Substitute(rule, randElem, newElem)

\* every state one call of makeRandomMove can return
RandomMoves(rule) ==
    UNION {{makeRandomMove(rule, randElem, newElem) :
                newElem \in Range(otherSymbols(rule[randElem]))} :
            randElem \in 1..Len(rule)}

\* a new state with its stateValue as getValue caches it on first use
NewState(rule) == [ruleString |-> rule, stateValue |-> getValue(rule)]

\* randomNeighbors(num): num draws of makeRandomMove.  The list is kept as the
\* set of its members: findBestNeighbor's choice depends on nothing else.
randomNeighbors(rule, num) ==
    {S \in SUBSET {NewState(r) : r \in RandomMoves(rule)} :
        S # {} /\ Cardinality(S) <= num}

-----------------------------------------------------------------------------
(* HillClimber *)

\* randomNeighbors(8) in step
NumNeighbors == 8

\* the neighbours findBestNeighbor may return: those of the best value
findBestNeighbor(neighbors) ==
    LET values == {n.stateValue : n \in neighbors}
        bestValue == CHOOSE v \in values : \A w \in values : w <= v
    IN  {n \in neighbors : n.stateValue = bestValue}

HCNew(startState, maxRounds) ==
    [maxRounds  |-> maxRounds,
     maxValue   |-> getMaxValue(startState),
     currState  |-> startState,
     currValue  |-> getValue(startState),
     count      |-> 0]

\* the comparisons that end step; self is the climber after currState and
\* currValue have been assigned
stepStatus(self, nextValue) ==
    IF nextValue = self.maxValue THEN "optimal"
    ELSE IF nextValue >= self.currValue THEN "keep going"
    ELSE "local maxima"

\* step with bestNeigh the neighbour findBestNeighbor chose
HCstep(self, bestNeigh) ==
    LET nextValue == bestNeigh.stateValue
        moved == [self EXCEPT !.count = self.count + 1,
                              !.currState = bestNeigh.ruleString,
                              !.currValue = nextValue]
    IN  [self |-> moved, status |-> stepStatus(moved, nextValue)]

HCStepResults(self) ==
    {HCstep(self, bestNeigh) :
        bestNeigh \in UNION {findBestNeighbor(neighs) :
                                neighs \in randomNeighbors(self.currState, NumNeighbors)}}

HCrunGuardLeq(self) ==
    self.currValue < self.maxValue /\ self.count <= self.maxRounds

\* the condition of run's while loop
HCrunGuard(self) ==
    self.currValue < self.maxValue /\ self.count < self.maxRounds

HCIdleCaller ==
    [pc |-> "idle", status |-> "None", before |-> 0, entry |-> 0, runSteps |-> 0]

\* the caller calls step itself
HCDirectStep ==
    /\ hcCaller.pc = "idle"
    /\ hc.count < MaxCount
    /\ \E r \in HCStepResults(hc) :
          /\ hc' = r.self
          /\ hcCaller' = [hcCaller EXCEPT !.status = r.status,
                                          !.before = hc.currValue]
    /\ UNCHANGED <<evalFunction, RULE_LEN, stateGen, ga, gaCaller, rs, nb,
                   xo, mv, grs, astar>>

\* the caller calls run: status = None, then the loop is entered
HCRunCall ==
    /\ hcCaller.pc = "idle"
    /\ hcCaller' = [hcCaller EXCEPT !.pc = "run", !.status = "None", !.before = 0,
                                    !.entry = hc.count, !.runSteps = 0]
    /\ UNCHANGED <<evalFunction, RULE_LEN, hc, stateGen, ga, gaCaller, rs, nb,
                   xo, mv, grs, astar>>

\* one pass of run's loop: step, then the break (and the return it leads to)
HCRunIterate ==
    /\ hcCaller.pc = "run"
    /\ HCrunGuard(hc)
    /\ \E r \in HCStepResults(hc) :
          /\ hc' = r.self
          /\ hcCaller' =
                [hcCaller EXCEPT
                    !.status = r.status,
                    !.before = hc.currValue,
                    !.runSteps = hcCaller.runSteps + 1,
                    !.pc = IF r.status \in {"optimal", "local maxima"}
                           THEN "returned" ELSE "run"]
    /\ UNCHANGED <<evalFunction, RULE_LEN, stateGen, ga, gaCaller, rs, nb,
                   xo, mv, grs, astar>>

\* the loop condition fails: run returns (currValue, maxValue, count), the
\* fields of the climber as they then are
HCRunReturn ==
    /\ hcCaller.pc = "run"
    /\ ~HCrunGuard(hc)
    /\ hcCaller' = [hcCaller EXCEPT !.pc = "returned"]
    /\ UNCHANGED <<evalFunction, RULE_LEN, hc, stateGen, ga, gaCaller, rs, nb,
                   xo, mv, grs, astar>>

-----------------------------------------------------------------------------
(* GASearcher.rouletteSelect *)

RECURSIVE sum(_)
sum(valueList) ==
    IF valueList = << >> THEN 0 ELSE Head(valueList) + sum(Tail(valueList))

\* the draw points random.random() * totalValues can take, as numerators over
\* PickRes
Picks(valueList) ==
    IF sum(valueList) = 0 THEN {0} ELSE 0..(sum(valueList) * PickRes - 1)

RECURSIVE rouletteScanGt(_, _, _, _)
rouletteScanGt(valueList, pick, i, s) ==
    IF i > Len(valueList)
    THEN "TypeError"
    ELSE IF (s + valueList[i]) * PickRes > pick
         THEN i - 1
         ELSE rouletteScanGt(valueList, pick, i + 1, s + valueList[i])

\* the loop of rouletteSelect from position i (counted from 1) with running
\* sum s; the index returned counts from 0 as in the code.  Past the loop the
\* print statement adds a string and an int.
RECURSIVE rouletteScan(_, _, _, _)
rouletteScan(valueList, pick, i, s) ==
    IF i > Len(valueList)
    THEN "TypeError"
    ELSE IF (s + valueList[i]) * PickRes >= pick
         THEN i - 1
         ELSE rouletteScan(valueList, pick, i + 1, s + valueList[i])

rouletteSelectGt(valueList, pick) == rouletteScanGt(valueList, pick, 1, 0)

rouletteSelect(valueList, pick) == rouletteScan(valueList, pick, 1, 0)

ValueLists == UNION {[1..n -> 0..MaxFit] : n \in 1..MaxList}

RSIdle == [called |-> FALSE, valueList |-> << >>, pick |-> 0, result |-> 0]

\* one call of rouletteSelect on a list of values
RouletteCall ==
    /\ \E valueList \in ValueLists :
          \E pick \in Picks(valueList) :
             rs' = [called |-> TRUE, valueList |-> valueList, pick |-> pick,
                    result |-> rouletteSelect(valueList, pick)]
    /\ UNCHANGED <<evalFunction, RULE_LEN, hc, hcCaller, stateGen, ga, gaCaller, nb,
                   xo, mv, grs, astar>>

-----------------------------------------------------------------------------
(* allNeighbors as a caller sees it *)

NBIdle == [state |-> << >>, neighbors |-> << >>, called |-> FALSE]

\* allNeighbors is called on the state
NeighborsCall ==
    /\ nb.state # << >>
    /\ nb' = [nb EXCEPT !.neighbors = allNeighbors(nb.state), !.called = TRUE]
    /\ UNCHANGED <<evalFunction, RULE_LEN, hc, hcCaller, stateGen, ga, gaCaller, rs,
                   xo, mv, grs, astar>>

\* the caller goes on with one of the neighbours returned
NeighborsMove ==
    /\ nb.called
    /\ \E i \in DOMAIN nb.neighbors :
          nb' = [state |-> nb.neighbors[i], neighbors |-> << >>, called |-> FALSE]
    /\ UNCHANGED <<evalFunction, RULE_LEN, hc, hcCaller, stateGen, ga, gaCaller, rs,
                   xo, mv, grs, astar>>

-----------------------------------------------------------------------------
(* GASearcher *)

\* self.best = 0 of the constructor: no state yet
NoBest == << >>

GANone ==
    [best |-> NoBest, popSize |-> 0, maxGenerations |-> 0, currStates |-> << >>,
     maxFit |-> 0, count |-> 0]

\* pc: the caller's position; popSize, maxGenerations: the arguments given to
\* the constructor; status: what the last step call returned; tick flips at
\* every step call; entry, runSteps, sawOptimal: the count when run was
\* called, the step calls run has made, whether one returned 'optimal';
\* seenMax: the highest fitness any step has evaluated
GACallerNew(popSize, maxGenerations) ==
    [pc |-> "new", popSize |-> popSize, maxGenerations |-> maxGenerations,
     status |-> "None", tick |-> 0, entry |-> 0, runSteps |-> 0,
     sawOptimal |-> FALSE, seenMax |-> 0]

GAIdleCaller == [GACallerNew(0, 0) EXCEPT !.pc = "none"]

popSizeAsGiven(popSize) == popSize

\* an odd population size is made even
evenPopSize(popSize) == IF popSize % 2 = 1 THEN popSize + 1 ELSE popSize

\* __init__: rnd[i] is the random rule string drawn in pass i of the loop;
\* the generator holds the last one drawn when the loop ends
GAInit(gen, popSize, maxGenerations, rnd) ==
    LET n == evenPopSize(popSize)
        currStates == [i \in 1..n |-> IF i = 1 THEN gen ELSE rnd[i - 1]]
    IN  [self |-> [best |-> NoBest,
                   popSize |-> n,
                   maxGenerations |-> maxGenerations,
                   currStates |-> currStates,
                   maxFit |-> getMaxValue(currStates[1]),
                   count |-> 0],
         stateGen |-> rnd[n]]

\* ruleString[:n] and ruleString[n:]
Prefix(rule, n) == SubSeq(rule, 1, IF n < Len(rule) THEN n ELSE Len(rule))
Suffix(rule, n) == IF n >= Len(rule) THEN << >> ELSE SubSeq(rule, n + 1, Len(rule))

copyState(rule) == rule

crossoverOneSided(self, otherState, crossPoint) ==
    <<Prefix(self, crossPoint) \o Suffix(otherState, crossPoint), copyState(otherState)>>

crossover(self, otherState, crossPoint) ==
    IF crossPoint = 0 \/ crossPoint = RULE_LEN
    THEN <<copyState(self), copyState(otherState)>>
    ELSE <<Prefix(self, crossPoint) \o Suffix(otherState, crossPoint),
           Prefix(otherState, crossPoint) \o Suffix(self, crossPoint)>>

\* picks[i] is the draw point of the i-th call of rouletteSelect
selectParents(states, fitnesses, picks) ==
    [i \in 1..Len(states) |-> states[rouletteSelect(fitnesses, picks[i]) + 1]]

SelectedParents(states, fitnesses) ==
    {selectParents(states, fitnesses, picks) :
        picks \in [1..Len(states) -> Picks(fitnesses)]}

\* the first loop of mateParents: every pair crossed at a point or copied
RECURSIVE Mated(_)
Mated(parents) ==
    IF parents = << >>
    THEN {<< >>}
    ELSE LET p1 == parents[1]
             p2 == parents[2]
             kids == {<<copyState(p1), copyState(p2)>>}
                        \cup {crossover(p1, p2, crossPoint) :
                                    crossPoint \in 0..RULE_LEN}
         IN  {k \o rest : k \in kids, rest \in Mated(SubSeq(parents, 3, Len(parents)))}

\* the second loop of mateParents: every member mutated or left alone
RECURSIVE Mutated(_)
Mutated(newPop) ==
    IF newPop = << >>
    THEN {<< >>}
    ELSE {<<m>> \o rest :
            m \in {Head(newPop)} \cup RandomMoves(Head(newPop)),
            rest \in Mutated(Tail(newPop))}

mateParentsDropLast(parents) ==
    UNION {Mutated(SubSeq(newPop, 1, Len(newPop) - 1)) : newPop \in Mated(parents)}

\* every population mateParents can return for these parents
mateParents(parents) == UNION {Mutated(newPop) : newPop \in Mated(parents)}

\* list.index, counted from 0
index(list, v) ==
    (CHOOSE i \in DOMAIN list : list[i] = v /\ \A j \in 1..(i - 1) : list[j] # v) - 1

max(list) == CHOOSE v \in Range(list) : \A w \in Range(list) : w <= v

fitsOf(self) == [i \in DOMAIN self.currStates |-> getValue(self.currStates[i])]

getCount(self) == self.count

\* the accessors read the first member of the population
getCurrState(self) == self.currStates[1]

getCurrValue(self) == getValue(self.currStates[1])

\* line 288
surpassed(self) == self.count > self.maxGenerations

firstIsOptimal(self, fits) == fits[1] = self.maxFit

\* line 293: self.maxFit in fits
hasOptimal(self, fits) == self.maxFit \in Range(fits)

\* step, with newStates the population mateParents returned (read only when
\* the step gets that far)
GAstep(self, newStates) ==
    LET overallBest == self.currStates[1]
        fits == fitsOf(self)
    IN  IF surpassed(self)
        THEN [self |-> self, status |-> "local maxima"]
        ELSE IF hasOptimal(self, fits)
        THEN [self |-> [self EXCEPT !.best = self.currStates[index(fits, self.maxFit) + 1]],
              status |-> "optimal"]
        ELSE LET bestLoc == index(fits, max(fits))
                 bestOne == self.currStates[bestLoc + 1]
             IN  [self |-> [self EXCEPT
                               !.currStates = newStates,
                               !.best = IF getValue(bestOne) > getValue(overallBest)
                                        THEN bestOne ELSE overallBest,
                               !.count = self.count + 1],
                  status |-> "keep going"]

\* every outcome of one step call
GAStepResults(self) ==
    IF surpassed(self) \/ hasOptimal(self, fitsOf(self))
    THEN {GAstep(self, self.currStates)}
    ELSE {GAstep(self, newStates) :
            newStates \in UNION {mateParents(parentPool) :
                parentPool \in SelectedParents(self.currStates, fitsOf(self))}}

\* the fitness values a step call evaluates (none when it returns at once)
Evaluated(self) == IF surpassed(self) THEN {} ELSE Range(fitsOf(self))

Highest(a, S) == CHOOSE v \in S \cup {a} : \A w \in S \cup {a} : w <= v

GArunGuardLeq(self) == self.count <= self.maxGenerations

\* the condition of run's while loop
GArunGuard(self) == self.count < self.maxGenerations

\* GASearcher(stateGen, popSize, maxGenerations)
GAConstruct ==
    /\ gaCaller.pc = "new"
    /\ \E rnd \in [1..evenPopSize(gaCaller.popSize) -> randomRuleset] :
          LET made == GAInit(stateGen, gaCaller.popSize, gaCaller.maxGenerations, rnd)
          IN  /\ ga' = made.self
              /\ stateGen' = made.stateGen
    /\ gaCaller' = [gaCaller EXCEPT !.pc = "idle"]
    /\ UNCHANGED <<evalFunction, RULE_LEN, hc, hcCaller, rs, nb,
                   xo, mv, grs, astar>>

\* the caller calls step itself
GADirectStep ==
    /\ gaCaller.pc = "idle"
    /\ \E r \in GAStepResults(ga) :
          /\ ga' = r.self
          /\ gaCaller' = [gaCaller EXCEPT
                            !.status = r.status,
                            !.tick = 1 - gaCaller.tick,
                            !.seenMax = Highest(gaCaller.seenMax, Evaluated(ga))]
    /\ UNCHANGED <<evalFunction, RULE_LEN, hc, hcCaller, stateGen, rs, nb,
                   xo, mv, grs, astar>>

\* the caller calls run: status = None, then the loop is entered
GARunCall ==
    /\ gaCaller.pc = "idle"
    /\ gaCaller' = [gaCaller EXCEPT !.pc = "run", !.status = "None",
                                    !.entry = ga.count, !.runSteps = 0,
                                    !.sawOptimal = FALSE]
    /\ UNCHANGED <<evalFunction, RULE_LEN, hc, hcCaller, stateGen, ga, rs, nb,
                   xo, mv, grs, astar>>

\* one pass of run's loop: step, then the break (and the return it leads to)
GARunIterate ==
    /\ gaCaller.pc = "run"
    /\ GArunGuard(ga)
    /\ \E r \in GAStepResults(ga) :
          /\ ga' = r.self
          /\ gaCaller' = [gaCaller EXCEPT
                            !.status = r.status,
                            !.tick = 1 - gaCaller.tick,
                            !.seenMax = Highest(gaCaller.seenMax, Evaluated(ga)),
                            !.runSteps = gaCaller.runSteps + 1,
                            !.sawOptimal = (r.status = "optimal"),
                            !.pc = IF r.status = "optimal" THEN "returned" ELSE "run"]
    /\ UNCHANGED <<evalFunction, RULE_LEN, hc, hcCaller, stateGen, rs, nb,
                   xo, mv, grs, astar>>

\* the loop condition fails: run returns
GARunReturn ==
    /\ gaCaller.pc = "run"
    /\ ~GArunGuard(ga)
    /\ gaCaller' = [gaCaller EXCEPT !.pc = "returned"]
    /\ UNCHANGED <<evalFunction, RULE_LEN, hc, hcCaller, stateGen, ga, rs, nb,
                   xo, mv, grs, astar>>

-----------------------------------------------------------------------------
(* crossover, makeRandomMove and getRandomStates called on their own *)

XOIdle ==
    [self |-> << >>, otherState |-> << >>, crossPoint |-> 0,
     children |-> << >>, called |-> FALSE]

\* one call of self.crossover(otherState); random.randint(0, RULE_LEN) draws
\* the point
CrossoverCall ==
    /\ xo.self # << >>
    /\ \E crossPoint \in 0..RULE_LEN :
          xo' = [xo EXCEPT !.crossPoint = crossPoint,
                           !.children = crossover(xo.self, xo.otherState, crossPoint),
                           !.called = TRUE]
    /\ UNCHANGED <<evalFunction, RULE_LEN, hc, hcCaller, stateGen, ga, gaCaller,
                   rs, nb, mv, grs, astar>>

MVIdle == [state |-> << >>, result |-> << >>, called |-> FALSE]

\* one call of makeRandomMove: random.randrange draws the position,
\* random.choice the new symbol among the other symbols
MakeRandomMoveCall ==
    /\ mv.state # << >>
    /\ \E randElem \in 1..Len(mv.state) :
          \E newElem \in Range(otherSymbols(mv.state[randElem])) :
             mv' = [state |-> mv.state,
                    result |-> makeRandomMove(mv.state, randElem, newElem),
                    called |-> TRUE]
    /\ UNCHANGED <<evalFunction, RULE_LEN, hc, hcCaller, stateGen, ga, gaCaller,
                   rs, nb, xo, grs, astar>>

\* the caller goes on from the state makeRandomMove returned
MakeRandomMoveOn ==
    /\ mv.called
    /\ mv' = [state |-> mv.result, result |-> << >>, called |-> FALSE]
    /\ UNCHANGED <<evalFunction, RULE_LEN, hc, hcCaller, stateGen, ga, gaCaller,
                   rs, nb, xo, grs, astar>>

\* RulesetState(self.evalFunction, self.maxValue) with the rule string that
\* randomRuleset drew for it
RandomState(self, rule) ==
    [evalFunction |-> self.evalFunction, maxValue |-> self.maxValue,
     ruleString |-> rule]

\* What the call hands back: the loop appends each new state to the list
\* newStates, and the return statement names newState, the state built last;
\* with n = 0 the loop never binds that name.  rnd[i] is the i-th rule string
\* drawn.
getRandomStates(self, n, rnd) ==
    IF n = 0
    THEN [type |-> "UnboundLocalError", items |-> << >>]
    ELSE [type |-> "RulesetState", items |-> <<RandomState(self, rnd[n])>>]

GRSIdle ==
    [self |-> [evalFunction |-> "countF", maxValue |-> 0, ruleString |-> << >>],
     n |-> 0, result |-> [type |-> "none", items |-> << >>], called |-> FALSE]

\* one call of self.getRandomStates(n)
GetRandomStatesCall ==
    /\ grs.self.ruleString # << >>
    /\ \E n \in 0..MaxStates :
          \E rnd \in [1..n -> randomRuleset] :
             grs' = [grs EXCEPT !.n = n,
                                !.result = getRandomStates(grs.self, n, rnd),
                                !.called = TRUE]
    /\ UNCHANGED <<evalFunction, RULE_LEN, hc, hcCaller, stateGen, ga, gaCaller,
                   rs, nb, xo, mv, astar>>

-----------------------------------------------------------------------------
(* src/MacCampusCode/MacStateAdvisors.py: AStarMacState and AStarMacAdvisor *)

\* The map self.mac is the caller's: vertices 0 .. NumVertices - 1, an edge
\* between every two of them, a weight on every edge.
Vertices == 0..(NumVertices - 1)

Edges == {e \in SUBSET Vertices : Cardinality(e) = 2}

Maps == [Edges -> 1..MaxWeight]

\* self.mac.getNeighbors(vertex): the other vertices, in ascending order
getNeighbors(vertex) ==
    [k \in 1..(NumVertices - 1) |-> IF k - 1 < vertex THEN k - 1 ELSE k]

\* self.mac.getWeight(node1, node2)
getWeight(mac, node1, node2) == mac[{node1, node2}]

\* self.mac.heuristicDistance(node1, node2): the straight-line distance of a
\* map whose vertices lie on a line, vertex v at position v
heuristicDistance(node1, node2) ==
    IF node1 < node2 THEN node2 - node1 ELSE node1 - node2

\* AStarMacState.__init__
AStarMacState(label, path, costToHere, costToGoal) ==
    [label |-> label, pathToMe |-> path, costToHere |-> costToHere,
     costToGoal |-> costToGoal, myCost |-> costToHere + costToGoal]

calcDistToGoal(goal, vertexLabel) == heuristicDistance(vertexLabel, goal)

setupInitialState(goal, startLabel) ==
    LET g == 0
        h == calcDistToGoal(goal, startLabel)
    IN  AStarMacState(startLabel, << >>, g, h)

buildNeighborStateEdgeOnly(mac, goal, currState, neighLabel) ==
    AStarMacState(neighLabel, Append(currState.pathToMe, currState.label),
                  getWeight(mac, currState.label, neighLabel),
                  calcDistToGoal(goal, neighLabel))

buildNeighborState(mac, goal, currState, neighLabel) ==
    LET currLabel == currState.label
        newPath == Append(currState.pathToMe, currLabel)
        newG == currState.costToHere + getWeight(mac, currLabel, neighLabel)
        newH == calcDistToGoal(goal, neighLabel)
    IN  AStarMacState(neighLabel, newPath, newG, newH)

generateNeighbors(mac, goal, state) ==
    LET vertex == state.label
        rawNeighs == getNeighbors(vertex)
    IN  [k \in 1..Len(rawNeighs) |-> buildNeighborState(mac, goal, state, rawNeighs[k])]

ASIdle ==
    [mac |-> << >>, goal |-> 0, state |-> AStarMacState(0, << >>, 0, 0),
     neighs |-> << >>, generated |-> FALSE]

\* MacTaskAdvisor.__init__ and getStartState
AStarNew(macMap, startLabel, goalLabel) ==
    [mac |-> macMap, goal |-> goalLabel,
     state |-> setupInitialState(goalLabel, startLabel),
     neighs |-> << >>, generated |-> FALSE]

\* the search calls generateNeighbors on the state in hand
GenerateNeighborsCall ==
    /\ astar.mac # << >>
    /\ ~astar.generated
    /\ astar' = [astar EXCEPT !.neighs = generateNeighbors(astar.mac, astar.goal, astar.state),
                              !.generated = TRUE]
    /\ UNCHANGED <<evalFunction, RULE_LEN, hc, hcCaller, stateGen, ga, gaCaller,
                   rs, nb, xo, mv, grs>>

\* the search takes one of the neighbours returned as its next state
TakeNeighbor ==
    /\ astar.generated
    /\ Len(astar.state.pathToMe) + 1 < MaxPath
    /\ \E k \in DOMAIN astar.neighs :
          astar' = [astar EXCEPT !.state = astar.neighs[k],
                                 !.neighs = << >>,
                                 !.generated = FALSE]
    /\ UNCHANGED <<evalFunction, RULE_LEN, hc, hcCaller, stateGen, ga, gaCaller,
                   rs, nb, xo, mv, grs>>

HCNone ==
    [maxRounds |-> 0, maxValue |-> 0, currState |-> << >>,
     currValue |-> 0, count |-> 0]

-----------------------------------------------------------------------------
(* The hill climber, driven by its caller *)

InitHC ==
    /\ evalFunction \in EvalFunctions
    /\ RULE_LEN = HCMaxLen
    /\ \E startState \in RulesUpTo(HCMaxLen), maxRounds \in 1..MaxRounds :
          hc = HCNew(startState, maxRounds)
    /\ hcCaller = HCIdleCaller
    /\ stateGen = << >>
    /\ ga = GANone
    /\ gaCaller = GAIdleCaller
    /\ rs = RSIdle
    /\ nb = NBIdle
    /\ xo = XOIdle
    /\ mv = MVIdle
    /\ grs = GRSIdle
    /\ astar = ASIdle

NextHC == HCDirectStep \/ HCRunCall \/ HCRunIterate \/ HCRunReturn

SpecHC == InitHC /\ [][NextHC]_vars

-----------------------------------------------------------------------------
(* The genetic algorithm, constructed and driven by its caller *)

InitGA ==
    /\ evalFunction \in EvalFunctions
    /\ RULE_LEN \in 1..GARuleLen
    /\ hc = HCNone
    /\ hcCaller = HCIdleCaller
    /\ stateGen \in Rules(RULE_LEN)
    /\ ga = GANone
    /\ \E popSize \in 1..MaxPopReq, maxGenerations \in 0..MaxGen :
          gaCaller = GACallerNew(popSize, maxGenerations)
    /\ rs = RSIdle
    /\ nb = NBIdle
    /\ xo = XOIdle
    /\ mv = MVIdle
    /\ grs = GRSIdle
    /\ astar = ASIdle

NextGA == GAConstruct \/ GADirectStep \/ GARunCall \/ GARunIterate \/ GARunReturn

SpecGA == InitGA /\ [][NextGA]_vars

-----------------------------------------------------------------------------
(* rouletteSelect on every list of values *)

InitRoulette ==
    /\ evalFunction = "countF"
    /\ RULE_LEN = 1
    /\ hc = HCNone
    /\ hcCaller = HCIdleCaller
    /\ stateGen = << >>
    /\ ga = GANone
    /\ gaCaller = GAIdleCaller
    /\ rs = RSIdle
    /\ nb = NBIdle
    /\ xo = XOIdle
    /\ mv = MVIdle
    /\ grs = GRSIdle
    /\ astar = ASIdle

NextRoulette == RouletteCall

SpecRoulette == InitRoulette /\ [][NextRoulette]_vars

-----------------------------------------------------------------------------
(* allNeighbors on every rule string *)

InitNeighbors ==
    /\ evalFunction = "countF"
    /\ RULE_LEN = 1
    /\ hc = HCNone
    /\ hcCaller = HCIdleCaller
    /\ stateGen = << >>
    /\ ga = GANone
    /\ gaCaller = GAIdleCaller
    /\ rs = RSIdle
    /\ \E rule \in UNION {[1..n -> Range(options)] : n \in 1..MaxLen} :
          nb = [state |-> rule, neighbors |-> << >>, called |-> FALSE]
    /\ xo = XOIdle
    /\ mv = MVIdle
    /\ grs = GRSIdle
    /\ astar = ASIdle

NextNeighbors == NeighborsCall \/ NeighborsMove

SpecNeighbors == InitNeighbors /\ [][NextNeighbors]_vars

-----------------------------------------------------------------------------
(* crossover on every two parents built for the run's RULE_LEN *)

InitCrossover ==
    /\ evalFunction = "countF"
    /\ RULE_LEN \in 1..MaxLen
    /\ hc = HCNone
    /\ hcCaller = HCIdleCaller
    /\ stateGen = << >>
    /\ ga = GANone
    /\ gaCaller = GAIdleCaller
    /\ rs = RSIdle
    /\ nb = NBIdle
    /\ \E self \in randomRuleset, otherState \in randomRuleset :
          xo = [XOIdle EXCEPT !.self = self, !.otherState = otherState]
    /\ mv = MVIdle
    /\ grs = GRSIdle
    /\ astar = ASIdle

NextCrossover == CrossoverCall

SpecCrossover == InitCrossover /\ [][NextCrossover]_vars

-----------------------------------------------------------------------------
(* makeRandomMove on every rule string *)

InitMove ==
    /\ evalFunction = "countF"
    /\ RULE_LEN = 1
    /\ hc = HCNone
    /\ hcCaller = HCIdleCaller
    /\ stateGen = << >>
    /\ ga = GANone
    /\ gaCaller = GAIdleCaller
    /\ rs = RSIdle
    /\ nb = NBIdle
    /\ xo = XOIdle
    /\ \E rule \in UNION {[1..n -> Range(options)] : n \in 1..MaxLen} :
          mv = [MVIdle EXCEPT !.state = rule]
    /\ grs = GRSIdle
    /\ astar = ASIdle

NextMove == MakeRandomMoveCall \/ MakeRandomMoveOn

SpecMove == InitMove /\ [][NextMove]_vars

-----------------------------------------------------------------------------
(* getRandomStates on every state and every n *)

InitRandomStates ==
    /\ evalFunction \in EvalFunctions
    /\ RULE_LEN \in 1..GRSRuleLen
    /\ hc = HCNone
    /\ hcCaller = HCIdleCaller
    /\ stateGen = << >>
    /\ ga = GANone
    /\ gaCaller = GAIdleCaller
    /\ rs = RSIdle
    /\ nb = NBIdle
    /\ xo = XOIdle
    /\ mv = MVIdle
    /\ \E rule \in randomRuleset :
          grs = [GRSIdle EXCEPT !.self = [evalFunction |-> evalFunction,
                                          maxValue |-> getMaxValue(rule),
                                          ruleString |-> rule]]
    /\ astar = ASIdle

NextRandomStates == GetRandomStatesCall

SpecRandomStates == InitRandomStates /\ [][NextRandomStates]_vars

-----------------------------------------------------------------------------
(* the A* advisor on every map, start and goal *)

InitAStar ==
    /\ evalFunction = "countF"
    /\ RULE_LEN = 1
    /\ hc = HCNone
    /\ hcCaller = HCIdleCaller
    /\ stateGen = << >>
    /\ ga = GANone
    /\ gaCaller = GAIdleCaller
    /\ rs = RSIdle
    /\ nb = NBIdle
    /\ xo = XOIdle
    /\ mv = MVIdle
    /\ grs = GRSIdle
    /\ \E macMap \in Maps, startLabel \in Vertices, goalLabel \in Vertices :
          astar = AStarNew(macMap, startLabel, goalLabel)

NextAStar == GenerateNeighborsCall \/ TakeNeighbor

SpecAStar == InitAStar /\ [][NextAStar]_vars

-----------------------------------------------------------------------------
(* HillClimber.step and HillClimber.run *)

\* C1: after every call of step the status returned is 'optimal' when the
\* neighbour's fitness (now currValue) equals maxValue, else 'keep going'
\* when it is at least the fitness held before the move, else 'local maxima'.
C1_StatusComparesWithReplacedValue ==
    hcCaller.status # "None" =>
        hcCaller.status =
            (IF hc.currValue = hc.maxValue THEN "optimal"
             ELSE IF hc.currValue >= hcCaller.before THEN "keep going"
             ELSE "local maxima")

\* C2: run makes at most maxRounds calls of step (the loop cannot be entered
\* again once it has made that many), and a run called on the climber as
\* constructed returns a count that is the number of its step calls and at
\* most maxRounds; in general the count returned is at most the larger of
\* maxRounds and the count at the call.
C2_RunWithinRoundCap ==
    /\ hcCaller.runSteps <= hc.maxRounds
    /\ (hcCaller.pc = "run" /\ hcCaller.runSteps = hc.maxRounds
            => ~(hc.currValue < hc.maxValue /\ hc.count < hc.maxRounds))
    /\ (hcCaller.pc = "returned" /\ hcCaller.entry = 0
            => hc.count = hcCaller.runSteps /\ hc.count <= hc.maxRounds)
    /\ (hcCaller.pc = "returned" /\ hcCaller.entry > 0
            => hc.count <= (IF hcCaller.entry > hc.maxRounds
                            THEN hcCaller.entry ELSE hc.maxRounds))

\* a run on a new climber that the round cap ended, without convergence
C2_Witness ==
    /\ hcCaller.pc = "returned"
    /\ hcCaller.entry = 0
    /\ hc.maxRounds >= 2
    /\ hc.count = hc.maxRounds
    /\ hcCaller.status = "keep going"
    /\ hc.currValue < hc.maxValue

-----------------------------------------------------------------------------
(* GASearcher.step and GASearcher.run *)

StepCalled == gaCaller'.tick # gaCaller.tick

SomeMemberOptimal ==
    \E i \in DOMAIN ga.currStates : Eval(evalFunction, ga.currStates[i]) = ga.maxFit

ReportsOptimal ==
    /\ gaCaller'.status = "optimal"
    /\ ga'.best # NoBest
    /\ Eval(evalFunction, ga'.best) = ga.maxFit

C4_StepReportsCapReached ==
    [][StepCalled /\ gaCaller'.status # "optimal"
            => /\ ga'.count = ga.count + 1
               /\ gaCaller'.status = (IF ga'.count = ga.maxGenerations
                                      THEN "local maxima" ELSE "keep going")]_vars

\* C5: the recorded best has a fitness at least that of every member any
\* step has evaluated.
C5_BestIsBestEverSeen ==
    ga.best # NoBest => Eval(evalFunction, ga.best) >= gaCaller.seenMax

\* C6: run makes at most maxGenerations calls of step (the loop cannot be
\* entered again once it has made that many), and when a run called with
\* count <= maxGenerations (as after construction) has returned, a step
\* returned 'optimal' or count equals maxGenerations.
C6_RunWithinGenerationCap ==
    /\ gaCaller.runSteps <= ga.maxGenerations
    /\ (gaCaller.pc = "run" /\ gaCaller.runSteps = ga.maxGenerations
            => ~(ga.count < ga.maxGenerations))
    /\ (gaCaller.pc = "returned" /\ gaCaller.entry <= ga.maxGenerations
            => gaCaller.sawOptimal \/ ga.count = ga.maxGenerations)

\* a run on a new searcher that the generation cap ended, no optimum found
C6_Witness ==
    /\ gaCaller.pc = "returned"
    /\ gaCaller.entry = 0
    /\ ga.maxGenerations >= 1
    /\ gaCaller.runSteps = ga.maxGenerations
    /\ ~gaCaller.sawOptimal

\* C7: a step call that gets to roulette selection with fitness values that
\* sum to zero reports an error and leaves the population as it is.
C7_ZeroSumSelectionIsAnError ==
    [][(/\ StepCalled
        /\ ga.count <= ga.maxGenerations
        /\ ~SomeMemberOptimal
        /\ \A i \in DOMAIN ga.currStates : Eval(evalFunction, ga.currStates[i]) = 0)
            => /\ gaCaller'.status \notin {"keep going", "optimal", "local maxima"}
               /\ ga'.currStates = ga.currStates]_vars

\* C9: once constructed the population holds popSize members, popSize being
\* the size asked for when that is even and one more when it is odd.
C9_PopulationSizeEven ==
    gaCaller.pc # "new" =>
        /\ Len(ga.currStates) = ga.popSize
        /\ ga.popSize % 2 = 0
        /\ ga.popSize = (IF gaCaller.popSize % 2 = 0
                         THEN gaCaller.popSize ELSE gaCaller.popSize + 1)

\* an odd size was asked for and generations have been produced
C9_Witness ==
    /\ gaCaller.pc # "new"
    /\ gaCaller.popSize % 2 = 1
    /\ ga.count >= 2
    /\ Len(ga.currStates) = gaCaller.popSize + 1

-----------------------------------------------------------------------------
(* rouletteSelect *)

RECURSIVE Total(_)
Total(valueList) ==
    IF valueList = << >> THEN 0 ELSE Head(valueList) + Total(Tail(valueList))

RouletteCalled == rs.called /\ Total(rs.valueList) > 0

\* C8 (as amended): on values with a positive total the index returned is in
\* range; its value is positive when the draw point is above 0; at the draw
\* point 0 the index is 0 whatever the value there.
C8_PositiveUnlessDrawIsZero ==
    RouletteCalled =>
        /\ rs.result \in 0..(Len(rs.valueList) - 1)
        /\ (rs.pick > 0 => rs.valueList[rs.result + 1] > 0)
        /\ (rs.pick = 0 => rs.result = 0)

\* C8 (as claimed): on values with a positive total the index returned is in
\* range and its value is positive, for every draw point in [0, total).
C8_NeverSelectsZeroFitness ==
    RouletteCalled =>
        /\ rs.result \in 0..(Len(rs.valueList) - 1)
        /\ rs.valueList[rs.result + 1] > 0

\* a draw above 0 passed over a member of value zero
C8_Witness ==
    /\ RouletteCalled
    /\ rs.pick > 0
    /\ rs.result > 0
    /\ rs.valueList[1] = 0
    /\ rs.valueList[rs.result + 1] > 0

-----------------------------------------------------------------------------
(* allNeighbors *)

\* rule differs from src at position i only, and holds c there
DiffersOnlyAt(rule, src, i, c) ==
    /\ Len(rule) = Len(src)
    /\ rule[i] = c
    /\ \A k \in DOMAIN src : k # i => rule[k] = src[k]

\* the list holds, for every position and every symbol of alphabet other
\* than the one there, exactly one single-substitution neighbour, and
\* nothing else
CompleteOver(alphabet) ==
    LET src == nb.state
        neighbors == nb.neighbors
    IN  /\ Len(neighbors) = Len(src) * (Cardinality(alphabet) - 1)
        /\ \A i \in DOMAIN src : \A c \in alphabet \ {src[i]} :
              Cardinality({j \in DOMAIN neighbors :
                              DiffersOnlyAt(neighbors[j], src, i, c)}) = 1
        /\ \A j \in DOMAIN neighbors :
              Cardinality({i \in DOMAIN src : neighbors[j][i] # src[i]}) = 1
        /\ \A j, k \in DOMAIN neighbors : j # k => neighbors[j] # neighbors[k]

\* C10 (as amended): allNeighbors returns L x 4 states, one for every
\* position and every symbol of {a, s, f, l, r} other than the one there.
C10_NeighborsOverFiveSymbols == nb.called => CompleteOver(Symbols)

\* C10 (as claimed): allNeighbors returns L x 3 states, one for every
\* position and every symbol of {s, f, l, r} other than the one there.
C10_NeighborsOverFourSymbols ==
    nb.called /\ Range(nb.state) \subseteq Range(options)
        => CompleteOver(Range(options))

\* allNeighbors was called on a string over {s, f, l, r} of two or more
\* symbols
C10_Witness ==
    /\ nb.called
    /\ Len(nb.state) >= 2
    /\ Range(nb.state) \subseteq Range(options)
    /\ Len(nb.neighbors) = 4 * Len(nb.state)

-----------------------------------------------------------------------------
(* crossover *)

-----------------------------------------------------------------------------
(* makeRandomMove *)

Differing(a, b) == {i \in DOMAIN a : a[i] # b[i]}

\* C12: the state makeRandomMove returns has an encoding of the same length
\* as the source and differs from it in exactly one position (so the symbol
\* there is a new one).
C12_MoveChangesOnePosition ==
    mv.called =>
        /\ Len(mv.result) = Len(mv.state)
        /\ Cardinality(Differing(mv.state, mv.result)) = 1

\* a move made from a state that an earlier move left with an 'a' in it
C12_Witness ==
    /\ mv.called
    /\ Len(mv.state) > 1
    /\ "a" \in Range(mv.state)
    /\ mv.result # mv.state

-----------------------------------------------------------------------------
(* immutability of states *)

\* C13: the encoding of a state constructed earlier never changes: no step of
\* a genetic-algorithm run, the construction of the GASearcher included,
\* changes the rule string of the generator state handed to the constructor.
C13_GeneratorEncodingUnchanged == [][stateGen' = stateGen]_vars

-----------------------------------------------------------------------------
(* the accessors of GASearcher *)

\* C14: once step has been called, getCurrState returns the state step
\* recorded as best and getCurrValue returns that state's fitness; after a
\* step that returned 'optimal', getCurrValue is the maximum fitness.
C14_AccessorsReportBest ==
    gaCaller.status # "None" =>
        /\ getCurrState(ga) = ga.best
        /\ getCurrValue(ga) = Eval(evalFunction, ga.best)
        /\ gaCaller.status = "optimal" => getCurrValue(ga) = ga.maxFit

-----------------------------------------------------------------------------
(* getRandomStates *)

\* C15: getRandomStates(n) returns a collection of exactly n states, each with
\* the evaluation function and the maximum value of the state it was called
\* on.
C15_ReturnsNStates ==
    grs.called =>
        /\ grs.result.type = "list"
        /\ Len(grs.result.items) = grs.n
        /\ \A i \in DOMAIN grs.result.items :
              /\ grs.result.items[i].evalFunction = grs.self.evalFunction
              /\ grs.result.items[i].maxValue = grs.self.maxValue

-----------------------------------------------------------------------------
(* the A* advisor *)

\* the sum of the edge weights along a sequence of vertices
RECURSIVE PathWeight(_, _)
PathWeight(mac, path) ==
    IF Len(path) < 2
    THEN 0
    ELSE mac[{path[1], path[2]}] + PathWeight(mac, Tail(path))

Distance(a, b) == IF a < b THEN b - a ELSE a - b

CostsFollowPath(s) ==
    /\ s.costToHere = PathWeight(astar.mac, Append(s.pathToMe, s.label))
    /\ s.costToGoal = Distance(s.label, astar.goal)
    /\ s.myCost = s.costToHere + s.costToGoal

\* C16: in every state reached from the start state by generateNeighbors
\* calls, g is 0 in the start state, a neighbour's g is its parent's g plus
\* the weight of the edge between their vertices (so g is the sum of the
\* weights along the recorded path followed by the state's own vertex), h is
\* the heuristic distance from the state's vertex to the goal, and myCost is
\* g + h.
C16_CostsFollowThePath ==
    astar.mac # << >> =>
        /\ CostsFollowPath(astar.state)
        /\ astar.state.pathToMe = << >> => astar.state.costToHere = 0
        /\ \A k \in DOMAIN astar.neighs :
              /\ CostsFollowPath(astar.neighs[k])
              /\ astar.neighs[k].pathToMe = Append(astar.state.pathToMe, astar.state.label)
              /\ astar.neighs[k].costToHere =
                    astar.state.costToHere
                    + astar.mac[{astar.state.label, astar.neighs[k].label}]

\* the neighbours of a state two edges away from the start have been generated
C16_Witness ==
    /\ astar.generated
    /\ Len(astar.state.pathToMe) = 2
    /\ astar.neighs # << >>
    /\ astar.state.costToHere > 1

====
